---- MODULE Spec2Model ----
(***************************************************************************)
(* Prepaid electricity life estimator: the four numerical routines of      *)
(* Prepaid_Electricity_Life_Estimator.py and the module-level pipeline     *)
(* that composes them.                                                     *)
(*                                                                         *)
(* Python floats are modelled as exact rationals <<n, d>> (d > 0, lowest   *)
(* terms).  The bisection only ever halves dyadic multiples of max_days,   *)
(* which binary floating point does exactly as well; the interpolation's   *)
(* round-off is below the 2-decimal rounding of its result.  The golden    *)
(* section search divides by an irrational, so its quotients are rounded   *)
(* to a fixed grid (Fix).                                                  *)
(***************************************************************************)
EXTENDS Integers, Sequences, FiniteSets

----------------------------------------------------------------------------
(* Rational arithmetic *)

\* The operations are functions applied to their arguments, so that an argument
\* is evaluated once however often the body reads it.

Abs(n) == IF n < 0 THEN -n ELSE n

\* Euclid's algorithm
Euclid[m \in Nat, n \in Nat] == IF n = 0 THEN m ELSE Euclid[n, m % n]

GCD(m, n) == Euclid[m, n]

Lowest[n \in Int, d \in Int] ==
    LET g == GCD(Abs(n), Abs(d))
        s == IF d < 0 THEN -1 ELSE 1
    IN  <<(s * n) \div g, (s * d) \div g>>

Norm(n, d) == Lowest[n, d]

Rat(n, d) == Norm(n, d)

RInt(n) == <<n, 1>>

Zero == RInt(0)

Pairs == Int \X Int

Neg[p \in Pairs] == <<-p[1], p[2]>>

RNeg(p) == Neg[p]

Add[p \in Pairs, q \in Pairs] ==
    LET g == GCD(p[2], q[2])
    IN  Norm(p[1] * (q[2] \div g) + q[1] * (p[2] \div g), (p[2] \div g) * q[2])

RAdd(p, q) == Add[p, q]

RSub(p, q) == Add[p, Neg[q]]

Mul[p \in Pairs, q \in Pairs] ==
    LET g1 == GCD(Abs(p[1]), q[2])
        g2 == GCD(Abs(q[1]), p[2])
    IN  Norm((p[1] \div g1) * (q[1] \div g2), (p[2] \div g2) * (q[2] \div g1))

RMul(p, q) == Mul[p, q]

Inverse[q \in Pairs] == Norm(q[2], q[1])

\* p / q for q # 0 (the callers test for a zero divisor first, as Python does)
RDiv(p, q) == Mul[p, Inverse[q]]

Sign[p \in Pairs] == IF p[1] > 0 THEN 1 ELSE IF p[1] < 0 THEN -1 ELSE 0

RSign(p) == Sign[p]

Less[p \in Pairs, q \in Pairs] ==
    LET gd == GCD(p[2], q[2])
        g0 == GCD(Abs(p[1]), Abs(q[1]))
        gn == IF g0 = 0 THEN 1 ELSE g0
    IN  (p[1] \div gn) * (q[2] \div gd) < (q[1] \div gn) * (p[2] \div gd)

RLt(p, q) == Less[p, q]

RLe(p, q) == ~Less[q, p]

Magnitude[p \in Pairs] == <<Abs(p[1]), p[2]>>

RAbs(p) == Magnitude[p]

Pow10[k \in Nat] == IF k = 0 THEN 1 ELSE 10 * Pow10[k - 1]

\* Python's round(x, ndigits): to the nearest multiple of 10^-ndigits, ties to even
RoundTo[p \in Pairs, ndigits \in Nat] ==
    LET s  == Pow10[ndigits]
        sn == p[1] * s
        q  == sn \div p[2]
        r2 == 2 * (sn % p[2])
        up == r2 > p[2] \/ (r2 = p[2] /\ q % 2 = 1)
    IN  Rat(IF up THEN q + 1 ELSE q, s)

Round(p, ndigits) == RoundTo[p, ndigits]

\* 0-based indexing of a Python list
At(s, k) == s[k + 1]

\* Python's range(lo, hi) as a sequence
Range(lo, hi) == [k \in 1..(hi - lo) |-> lo + k - 1]

\* all sequences over S of length lo..hi
SeqsOf(S, lo, hi) == UNION {[1..n -> S] : n \in lo..hi}

----------------------------------------------------------------------------
(* Bounds of the model *)

MaxAppliances == 4

MaxBalance == 50

MaxPts == 3

\* decimal digits kept by a quotient of the golden section search
FixDigits == 3

(* Program constants *)

DefaultBalance == 50

DefaultMaxDays == 30

BALANCE_GHS_0 == RInt(DefaultBalance)

COST_PER_KWH_0 == Rat(16, 10)

APPLIANCES == << <<"Fan", RInt(70), RInt(8)>>, <<"Fridge", RInt(200), RInt(24)>>,
                 <<"Bulb", RInt(10), RInt(6)>>, <<"TV", RInt(100), RInt(5)>> >>

tol == Rat(1, 100)

----------------------------------------------------------------------------
VARIABLES
    pc,                 \* position in the running routine
    \* module level and compute_daily_kwh
    appliances, COST_PER_KWH, BALANCE_GHS, agg_i, total_kwh, daily_kwh, daily_cost,
    \* estimate_days_remaining
    balance_ghs, daily_cost_func, max_days, a, b, iters, estimated_days,
    \* newton_interpolation, newton_divided_diff and the forecast comprehension
    x_data, y_data, days, day_i, target_x, coef, j, i, result, forecasted_usage, error,
    \* golden_section_search
    objective, gs_bounds, gs_a, gs_b, c, d, optimal_reduction

aggVars == <<appliances, COST_PER_KWH, BALANCE_GHS, agg_i, total_kwh, daily_kwh, daily_cost>>

bisVars == <<balance_ghs, daily_cost_func, max_days, a, b, iters, estimated_days>>

fcVars == <<x_data, y_data, days, day_i, target_x, coef, j, i, result, forecasted_usage, error>>

gsVars == <<objective, gs_bounds, gs_a, gs_b, c, d, optimal_reduction>>

vars == <<pc, aggVars, bisVars, fcVars, gsVars>>

----------------------------------------------------------------------------
(* compute_daily_kwh *)

\* the term left in watt-hours
TermInWattHours(app) == RMul(app[2], app[3])

\* one term of the generator: (power * hours) / 1000
Term(app) == RDiv(RMul(app[2], app[3]), RInt(1000))

\* sum(): the running total takes the next term of the generator
SumStep ==
    /\ pc = "sum"
    /\ agg_i <= Len(appliances)
    /\ total_kwh' = RAdd(total_kwh, Term(appliances[agg_i]))
    /\ agg_i' = agg_i + 1
    /\ UNCHANGED <<pc, appliances, COST_PER_KWH, BALANCE_GHS, daily_kwh, daily_cost, bisVars, fcVars, gsVars>>

\* return total_kwh, bound to daily_kwh at module level
SumReturn ==
    /\ pc = "sum"
    /\ agg_i > Len(appliances)
    /\ daily_kwh' = total_kwh
    /\ pc' = "cost"
    /\ UNCHANGED <<appliances, COST_PER_KWH, BALANCE_GHS, agg_i, total_kwh, daily_cost, bisVars, fcVars, gsVars>>

\* daily_cost = daily_kwh * COST_PER_KWH
DailyCost ==
    /\ pc = "cost"
    /\ daily_cost' = RMul(daily_kwh, COST_PER_KWH)
    /\ pc' = "estimate"
    /\ UNCHANGED <<appliances, COST_PER_KWH, BALANCE_GHS, agg_i, total_kwh, daily_kwh, bisVars, fcVars, gsVars>>

----------------------------------------------------------------------------
(* estimate_days_remaining *)

\* the cost callable: a linear function of elapsed days, offset c0 and slope k
CostAt(cf, t) == RAdd(cf.c0, RMul(cf.k, t))

\* cumulative_cost(t) = daily_cost * t
cumulative_cost(dc) == [c0 |-> Zero, k |-> dc]

\* f(t) = balance_ghs - daily_cost_func(t)
f(bal, cf, t) == RSub(bal, CostAt(cf, t))

\* the midpoint by floor division, (a + b) // 2
MidFloor(lo, hi) ==
    LET s == RAdd(lo, hi)
    IN  RInt(s[1] \div (2 * s[2]))

Mid(lo, hi) == RDiv(RAdd(lo, hi), RInt(2))

\* the sign test inverted, f(mid) * f(a) > 0
ProdPos(u, v) == RSign(u) * RSign(v) > 0

\* f(mid) * f(a) < 0; the sign of a product is the product of the signs
ProdNeg(u, v) == RSign(u) * RSign(v) < 0

\* estimated_days = estimate_days_remaining(BALANCE_GHS, cumulative_cost)
CallEstimate ==
    /\ pc = "estimate"
    /\ balance_ghs' = BALANCE_GHS
    /\ daily_cost_func' = cumulative_cost(daily_cost)
    /\ max_days' = RInt(DefaultMaxDays)
    /\ a' = Zero
    /\ b' = RInt(DefaultMaxDays)
    /\ iters' = 0
    /\ pc' = "bisect"
    /\ UNCHANGED <<aggVars, estimated_days, fcVars, gsVars>>

\* one iteration of the while loop
BisectStep ==
    /\ pc = "bisect"
    /\ RLt(tol, RSub(b, a))
    /\ LET mid == Mid(a, b)
       IN  IF ProdNeg(f(balance_ghs, daily_cost_func, mid), f(balance_ghs, daily_cost_func, a))
           THEN b' = mid /\ a' = a
           ELSE a' = mid /\ b' = b
    /\ iters' = iters + 1
    /\ UNCHANGED <<pc, aggVars, balance_ghs, daily_cost_func, max_days, estimated_days, fcVars, gsVars>>

\* loop exit: return (a + b) / 2
BisectReturn ==
    /\ pc = "bisect"
    /\ ~RLt(tol, RSub(b, a))
    /\ estimated_days' = Mid(a, b)
    /\ pc' = "done"
    /\ UNCHANGED <<aggVars, balance_ghs, daily_cost_func, max_days, a, b, iters, fcVars, gsVars>>

----------------------------------------------------------------------------
(* The module-level pipeline, lines 84-95 *)

ApplianceKinds == {APPLIANCES[k] : k \in 1..4} \cup {<<"Iron", RInt(1000), Rat(1, 2)>>}

ApplianceLists == SeqsOf(ApplianceKinds, 0, MaxAppliances)

IdleAgg ==
    /\ appliances = <<>> /\ COST_PER_KWH = Zero /\ BALANCE_GHS = Zero
    /\ agg_i = 1 /\ total_kwh = Zero /\ daily_kwh = Zero /\ daily_cost = Zero

IdleBis ==
    /\ balance_ghs = Zero /\ daily_cost_func = cumulative_cost(Zero) /\ max_days = Zero
    /\ a = Zero /\ b = Zero /\ iters = 0 /\ estimated_days = Zero

IdleFc ==
    /\ x_data = <<>> /\ y_data = <<>> /\ days = <<>> /\ day_i = 1 /\ target_x = 0
    /\ coef = <<>> /\ j = 0 /\ i = 0 /\ result = Zero /\ forecasted_usage = <<>>
    /\ error = "none"

IdleGs ==
    /\ objective = [kind |-> "none"] /\ gs_bounds = <<Zero, Zero>> /\ gs_a = Zero /\ gs_b = Zero
    /\ c = Zero /\ d = Zero /\ optimal_reduction = Zero

InitPipeline ==
    /\ pc = "sum"
    /\ appliances \in ApplianceLists
    /\ \E tariff \in {<<BALANCE_GHS_0, COST_PER_KWH_0>>, <<RInt(15), RInt(1)>>} :
           BALANCE_GHS = tariff[1] /\ COST_PER_KWH = tariff[2]
    /\ agg_i = 1 /\ total_kwh = Zero /\ daily_kwh = Zero /\ daily_cost = Zero
    /\ IdleBis /\ IdleFc /\ IdleGs

NextPipeline == SumStep \/ SumReturn \/ DailyCost \/ CallEstimate \/ BisectStep \/ BisectReturn

SpecPipeline == InitPipeline /\ [][NextPipeline]_vars

----------------------------------------------------------------------------
(* estimate_days_remaining on its own: balances >= 0, non-decreasing linear costs *)

BalanceVals == {RInt(n) : n \in 0..MaxBalance}

SlopeVals == {Zero, RInt(1), RInt(2), Rat(48, 5)}

OffsetVals == {Zero, RInt(20)}

MaxDaysVals == {RInt(DefaultMaxDays), RInt(8), Rat(1, 200)}

InitBisect ==
    /\ pc = "bisect"
    /\ balance_ghs \in BalanceVals
    /\ daily_cost_func \in [c0 : OffsetVals, k : SlopeVals]
    /\ max_days \in MaxDaysVals
    /\ a = Zero /\ b = max_days /\ iters = 0 /\ estimated_days = Zero
    /\ IdleAgg /\ IdleFc /\ IdleGs

NextBisect == BisectStep \/ BisectReturn

SpecBisect == InitBisect /\ [][NextBisect]_vars

\* the loop is straight-line code: a call that can take a step takes it
FairSpecBisect == SpecBisect /\ WF_vars(NextBisect)

----------------------------------------------------------------------------
(* newton_divided_diff, newton_interpolation and the forecast comprehension *)

\* the divisor taken between neighbours, x[i] - x[i - 1], whatever the order j
DDUpdateAdjacent(cf, x, ii, jj) ==
    [cf EXCEPT ![ii + 1] = RDiv(RSub(At(cf, ii), At(cf, ii - 1)), RInt(At(x, ii) - At(x, ii - 1)))]

\* coef[i] = (coef[i] - coef[i - 1]) / (x[i] - x[i - j])
DDUpdate(cf, x, ii, jj) ==
    [cf EXCEPT ![ii + 1] = RDiv(RSub(At(cf, ii), At(cf, ii - 1)), RInt(At(x, ii) - At(x, ii - jj)))]

\* Horner's rule in powers of target_x, without the shift by x_data[i]
HornerUpdateUnshifted(res, cf, x, t, ii) == RAdd(RMul(res, RInt(t)), At(cf, ii))

\* result = result * (target_x - x_data[i]) + coef[i]
HornerUpdate(res, cf, x, t, ii) == RAdd(RMul(res, RInt(t - At(x, ii))), At(cf, ii))

\* round(result, 2) without the clamp
OutputUnclamped(res) == Round(res, 2)

\* max(0, round(result, 2))
Output(res) ==
    LET r == Round(res, 2)
    IN  IF RLt(r, Zero) THEN Zero ELSE r

\* the comprehension calls newton_interpolation(x_used, y_used, d) for the next d;
\* newton_divided_diff starts from coef = list(y)
CallInterpolation ==
    /\ pc = "forecast"
    /\ day_i <= Len(days)
    /\ target_x' = days[day_i]
    /\ coef' = y_data
    /\ j' = 1
    /\ i' = Len(x_data) - 1
    /\ pc' = "divided_diff"
    /\ UNCHANGED <<x_data, y_data, days, day_i, result, forecasted_usage, error>>
    /\ UNCHANGED <<aggVars, bisVars, gsVars>>

\* one pass of the inner loop body, then the loop headers
DividedDiffStep ==
    /\ pc = "divided_diff"
    /\ j < Len(x_data)
    /\ At(x_data, i) # At(x_data, i - j)
    /\ coef' = DDUpdate(coef, x_data, i, j)
    /\ IF i - 1 >= j
       THEN i' = i - 1 /\ j' = j
       ELSE i' = Len(x_data) - 1 /\ j' = j + 1
    /\ UNCHANGED <<pc, x_data, y_data, days, day_i, target_x, result, forecasted_usage, error>>
    /\ UNCHANGED <<aggVars, bisVars, gsVars>>

\* x[i] - x[i - j] is 0: the division raises, nothing catches it
DividedDiffRaise ==
    /\ pc = "divided_diff"
    /\ j < Len(x_data)
    /\ At(x_data, i) = At(x_data, i - j)
    /\ error' = "ZeroDivisionError"
    /\ pc' = "raised"
    /\ UNCHANGED <<x_data, y_data, days, day_i, target_x, coef, j, i, result, forecasted_usage>>
    /\ UNCHANGED <<aggVars, bisVars, gsVars>>

\* return coef; result = coef[-1] and the Horner loop starts at n - 2
DividedDiffReturn ==
    /\ pc = "divided_diff"
    /\ j >= Len(x_data)
    /\ result' = At(coef, Len(coef) - 1)
    /\ i' = Len(coef) - 2
    /\ pc' = "horner"
    /\ UNCHANGED <<x_data, y_data, days, day_i, target_x, coef, j, forecasted_usage, error>>
    /\ UNCHANGED <<aggVars, bisVars, gsVars>>

HornerStep ==
    /\ pc = "horner"
    /\ i >= 0
    /\ result' = HornerUpdate(result, coef, x_data, target_x, i)
    /\ i' = i - 1
    /\ UNCHANGED <<pc, x_data, y_data, days, day_i, target_x, coef, j, forecasted_usage, error>>
    /\ UNCHANGED <<aggVars, bisVars, gsVars>>

\* return max(0, round(result, 2)); the comprehension collects it
InterpolationReturn ==
    /\ pc = "horner"
    /\ i < 0
    /\ forecasted_usage' = Append(forecasted_usage, Output(result))
    /\ day_i' = day_i + 1
    /\ pc' = "forecast"
    /\ UNCHANGED <<x_data, y_data, days, target_x, coef, j, i, result, error>>
    /\ UNCHANGED <<aggVars, bisVars, gsVars>>

\* range exhausted: forecasted_usage is bound
ForecastDone ==
    /\ pc = "forecast"
    /\ day_i > Len(days)
    /\ pc' = "done"
    /\ UNCHANGED <<aggVars, bisVars, fcVars, gsVars>>

HISTORICAL_DAYS == <<1, 2, 3, 4, 5>>

HISTORICAL_USAGE == <<Rat(58, 10), RInt(6), Rat(61, 10), Rat(63, 10), Rat(64, 10)>>

\* s[-3:]
Last3(s) == SubSeq(s, Len(s) - 2, Len(s))

x_used == Last3(HISTORICAL_DAYS)

y_used == Last3(HISTORICAL_USAGE)

\* range(6, 11)
ForecastDays == Range(6, 11)

XVals == {x_used[k] : k \in 1..3}

YVals == {y_used[k] : k \in 1..3} \cup {Zero, Rat(1, 8)}

InitForecast ==
    /\ pc = "forecast"
    /\ x_data \in SeqsOf(XVals, 1, MaxPts)
    /\ y_data \in [1..Len(x_data) -> YVals]
    /\ days \in {ForecastDays, HISTORICAL_DAYS}
    /\ day_i = 1 /\ target_x = 0 /\ coef = <<>> /\ j = 0 /\ i = 0 /\ result = Zero
    /\ forecasted_usage = <<>> /\ error = "none"
    /\ IdleAgg /\ IdleBis /\ IdleGs

NextForecast ==
    \/ CallInterpolation \/ DividedDiffStep \/ DividedDiffRaise \/ DividedDiffReturn
    \/ HornerStep \/ InterpolationReturn \/ ForecastDone

SpecForecast == InitForecast /\ [][NextForecast]_vars

----------------------------------------------------------------------------
(* golden_section_search *)

\* math.sqrt(5), to four decimals
Sqrt5 == Rat(22361, 10000)

gr == RDiv(RAdd(Sqrt5, RInt(1)), RInt(2))

gs_tol == Rat(1, 100)

\* a rounded quotient
Fix(p) == Round(p, FixDigits)

\* c = b - (b - a) / gr
GoldenC(lo, hi) == RSub(hi, Fix(RDiv(RSub(hi, lo), gr)))

\* d = a + (b - a) / gr
GoldenD(lo, hi) == RAdd(lo, Fix(RDiv(RSub(hi, lo), gr)))

\* the divisor of reduction_to_life: reduced_daily * COST_PER_KWH
Divisor(o, r) == RMul(RMul(o.daily_kwh, RSub(RInt(1), r)), o.cost)

\* the objective callable at r: reduction_to_life of lines 98-100, and three other
\* shapes a caller can pass (a parabola with its minimum at m, its mirror image, a
\* constant)
ObjAt(o, r) ==
    CASE o.kind = "reduction_to_life" -> RDiv(RNeg(o.balance), Divisor(o, r))
      [] o.kind = "parabola" -> RMul(RSub(r, o.m), RSub(r, o.m))
      [] o.kind = "hill" -> RNeg(RMul(RSub(r, o.m), RSub(r, o.m)))
      [] o.kind = "constant" -> Zero

\* whether evaluating the objective at r divides by zero
ObjRaises(o, r) == o.kind = "reduction_to_life" /\ RSign(Divisor(o, r)) = 0

\* half the width, (b - a) / 2, in place of the midpoint
GoldenHalfWidth(lo, hi) == RDiv(RSub(hi, lo), RInt(2))

\* return (b + a) / 2
GoldenResult(lo, hi) == RDiv(RAdd(hi, lo), RInt(2))

\* gr, c and d before the loop
GoldenEnter ==
    /\ pc = "golden"
    /\ c' = GoldenC(gs_a, gs_b)
    /\ d' = GoldenD(gs_a, gs_b)
    /\ pc' = "golden_loop"
    /\ UNCHANGED <<objective, gs_bounds, gs_a, gs_b, optimal_reduction>>
    /\ UNCHANGED <<aggVars, bisVars, fcVars>>

\* one iteration of the while loop
GoldenStep ==
    /\ pc = "golden_loop"
    /\ RLt(gs_tol, RAbs(RSub(c, d)))
    /\ ~ObjRaises(objective, c) /\ ~ObjRaises(objective, d)
    /\ IF RLt(ObjAt(objective, c), ObjAt(objective, d))
       THEN gs_b' = d /\ gs_a' = gs_a
       ELSE gs_a' = c /\ gs_b' = gs_b
    /\ c' = GoldenC(gs_a', gs_b')
    /\ d' = GoldenD(gs_a', gs_b')
    /\ UNCHANGED <<pc, objective, gs_bounds, optimal_reduction>>
    /\ UNCHANGED <<aggVars, bisVars, fcVars>>

\* f(c) or f(d) divides by zero: the call raises
GoldenRaise ==
    /\ pc = "golden_loop"
    /\ RLt(gs_tol, RAbs(RSub(c, d)))
    /\ (ObjRaises(objective, c) \/ ObjRaises(objective, d))
    /\ pc' = "raised"
    /\ UNCHANGED <<aggVars, bisVars, fcVars, gsVars>>

GoldenReturn ==
    /\ pc = "golden_loop"
    /\ ~RLt(gs_tol, RAbs(RSub(c, d)))
    /\ optimal_reduction' = GoldenResult(gs_a, gs_b)
    /\ pc' = "done"
    /\ UNCHANGED <<objective, gs_bounds, gs_a, gs_b, c, d>>
    /\ UNCHANGED <<aggVars, bisVars, fcVars>>

\* reduction_to_life with the module's BALANCE_GHS, daily_kwh and COST_PER_KWH
reduction_to_life ==
    [kind |-> "reduction_to_life", balance |-> BALANCE_GHS_0,
     daily_kwh |-> Rat(592, 100), cost |-> COST_PER_KWH_0]

Objectives ==
    {reduction_to_life, [reduction_to_life EXCEPT !.daily_kwh = Zero], [kind |-> "constant"]}
    \cup {[kind |-> kd, m |-> Rat(n, 20)] : kd \in {"parabola", "hill"}, n \in {-1, 3, 7, 10, 21}}

GsGrid == {Rat(n, 20) : n \in 0..19}

InitGolden ==
    /\ pc = "golden"
    /\ objective \in Objectives
    /\ gs_a \in GsGrid /\ gs_b \in GsGrid /\ RLt(gs_a, gs_b)
    /\ gs_bounds = <<gs_a, gs_b>>
    /\ c = Zero /\ d = Zero /\ optimal_reduction = Zero
    /\ IdleAgg /\ IdleBis /\ IdleFc

NextGolden == GoldenEnter \/ GoldenStep \/ GoldenRaise \/ GoldenReturn

SpecGolden == InitGolden /\ [][NextGolden]_vars

----------------------------------------------------------------------------
(* Properties of estimate_days_remaining *)

\* the root B / k of a linear cost with no offset
LinearRoot == RDiv(balance_ghs, daily_cost_func.k)

LinearCase ==
    /\ daily_cost_func.c0 = Zero
    /\ RSign(daily_cost_func.k) > 0
    /\ RLt(Zero, LinearRoot)
    /\ RLt(LinearRoot, max_days)

\* C1: for cost(t) = k*t with k > 0 and 0 < B/k < max_days, the returned value is
\* within 0.01 day of B/k, also when a midpoint lands exactly on the root.
C1_RootWithinTolerance ==
    (pc = "done" /\ LinearCase) => RLe(RAbs(RSub(estimated_days, LinearRoot)), tol)

\* no sign change of balance - cost over [0, max_days]
NoSignChange ==
    \/ RLt(balance_ghs, CostAt(daily_cost_func, Zero))
    \/ RLt(CostAt(daily_cost_func, max_days), balance_ghs)

\* C2: when balance < cost(0) or balance > cost(max_days) the routine signals
\* NoRootInRange and returns no number.
C2_NoRootSignalled == NoSignChange => pc # "done"

\* the bracket stays inside [0, max_days] and never collapses
C10_BracketInv == RLe(Zero, a) /\ RLt(a, b) /\ RLe(b, max_days)

\* an iteration halves the width and moves one end to the midpoint
C10_Halving ==
    (iters' # iters) =>
        /\ iters' = iters + 1
        /\ RLt(tol, RSub(b, a))
        /\ RAdd(RSub(b', a'), RSub(b', a')) = RSub(b, a)
        /\ \/ (a' = a /\ RAdd(b', b') = RAdd(a, b))
           \/ (b' = b /\ RAdd(a', a') = RAdd(a, b))

\* within tolerance the only step is the return
C10_StopsAtTolerance ==
    (pc = "bisect" /\ RLe(RSub(b, a), tol)) => (pc' = "done" /\ a' = a /\ b' = b)

\* C10: the bisection loop terminates; every iteration halves the bracket, moving
\* exactly one of a, b to the midpoint; the loop stops as soon as b - a <= 0.01;
\* with max_days = 30 it takes 12 iterations; 0 <= a < b <= max_days throughout.
C10_Terminates ==
    /\ []C10_BracketInv
    /\ [][C10_Halving]_vars
    /\ [][C10_StopsAtTolerance]_vars
    /\ <>(pc = "done")
    /\ []((pc = "done" /\ max_days = RInt(DefaultMaxDays)) => iters = 12)

C10_Witness ==
    /\ pc = "done" /\ max_days = RInt(DefaultMaxDays) /\ iters = 12
    /\ balance_ghs = RInt(7) /\ daily_cost_func = [c0 |-> Zero, k |-> RInt(2)]
    /\ RLt(a, Rat(7, 2)) /\ RLt(Rat(7, 2), b)

----------------------------------------------------------------------------
(* Properties of compute_daily_kwh and of the pipeline *)

RECURSIVE SumPowerHours(_)
SumPowerHours(apps) ==
    IF apps = <<>> THEN Zero
    ELSE RAdd(RMul(Head(apps)[2], Head(apps)[3]), SumPowerHours(Tail(apps)))

\* C3: compute_daily_kwh returns the sum over all entries of power * hours / 1000,
\* and 0 for the empty sequence.
C3_DailyKwhIsSum ==
    (pc # "sum") =>
        /\ daily_kwh = RDiv(SumPowerHours(appliances), RInt(1000))
        /\ (appliances = <<>> => daily_kwh = Zero)

C3_Witness ==
    /\ pc = "cost"
    /\ Len(appliances) = 3
    /\ appliances[2][1] = "Iron"
    /\ appliances[1] # appliances[3]
    /\ RLt(Zero, daily_kwh)

Scenario ==
    /\ appliances = APPLIANCES
    /\ COST_PER_KWH = COST_PER_KWH_0
    /\ BALANCE_GHS = BALANCE_GHS_0

\* C8 as stated: the default appliances, 1.6 per kWh and a balance of 50 give
\* daily_kwh ~ 6.12, daily_cost ~ 9.79 and estimated_days ~ 5.1.
C8_AsStated ==
    (pc = "done" /\ Scenario) =>
        /\ Round(daily_kwh, 2) = Rat(612, 100)
        /\ Round(daily_cost, 2) = Rat(979, 100)
        /\ Round(estimated_days, 1) = Rat(51, 10)

\* C8 amended: the default appliances, 1.6 per kWh and a balance of 50 give
\* daily_kwh = 5.92, daily_cost = 5.92 * 1.6 ~ 9.47 and estimated_days ~ 5.3, the
\* bisection result being within 0.01 of 50 / daily_cost.
C8_Scenario ==
    (pc = "done" /\ Scenario) =>
        /\ daily_kwh = Rat(592, 100)
        /\ daily_cost = RMul(daily_kwh, Rat(16, 10))
        /\ Round(daily_cost, 2) = Rat(947, 100)
        /\ Round(estimated_days, 1) = Rat(53, 10)
        /\ RLe(RAbs(RSub(estimated_days, RDiv(RInt(50), daily_cost))), tol)

C8_Witness ==
    /\ pc = "done" /\ Scenario
    /\ iters = 12
    /\ RLt(Rat(527, 100), estimated_days) /\ RLt(estimated_days, Rat(528, 100))

----------------------------------------------------------------------------
(* Properties of the interpolation *)

Returned == 1..Len(forecasted_usage)

\* C4: the interpolation is exact at the training points: at target xs[n] the
\* routine returns ys[n], rounded to 2 decimals.
C4_ExactAtTrainingPoints ==
    \A k \in Returned : \A n \in 1..Len(x_data) :
        days[k] = x_data[n] => forecasted_usage[k] = Round(y_data[n], 2)

C4_Witness ==
    /\ pc = "done"
    /\ x_data = <<5, 3, 4>>
    /\ y_data = <<Rat(1, 8), Rat(63, 10), Zero>>
    /\ days = HISTORICAL_DAYS
    /\ forecasted_usage[5] = Rat(12, 100)
    /\ forecasted_usage[3] = Rat(63, 10)

\* C5: whatever the target day, inside or outside the range of xs, the value
\* newton_interpolation returns is >= 0.
C5_NeverNegative == \A k \in Returned : RLe(Zero, forecasted_usage[k])

\* a negative polynomial value, extrapolated past the last data point, was just
\* clamped
C5_Witness ==
    /\ pc = "forecast"
    /\ Len(forecasted_usage) = 5
    /\ RSign(result) < 0
    /\ forecasted_usage[5] = Zero
    /\ \E k \in 1..4 : forecasted_usage[k] # Zero
    /\ \A n \in 1..Len(x_data) : x_data[n] < days[5]

HasDuplicate(x) == \E m, n \in 1..Len(x) : m # n /\ x[m] = x[n]

\* C6: with two equal x-values newton_divided_diff fails with a dedicated
\* DegenerateInput error from an explicit check, not with a generic division fault.
C6_DegenerateInputSignalled ==
    (HasDuplicate(x_data) /\ pc \notin {"forecast", "divided_diff"}) =>
        (pc = "raised" /\ error = "DegenerateInput")

ForecastScenario == x_data = x_used /\ y_data = y_used /\ days = ForecastDays

NonDecreasing(s) == \A k \in 1..(Len(s) - 1) : RLe(s[k], s[k + 1])

NonIncreasing(s) == \A k \in 1..(Len(s) - 1) : RLe(s[k + 1], s[k])

\* C9 as stated: from the last 3 history points the forecast for days 6..10 is
\* non-decreasing, about 6.5 to 6.9, each value >= 0.
C9_AsStated ==
    (pc = "done" /\ ForecastScenario) =>
        /\ Len(forecasted_usage) = 5
        /\ NonDecreasing(forecasted_usage)
        /\ \A k \in 1..5 :
            /\ RLe(Zero, forecasted_usage[k])
            /\ RLe(Rat(65, 10), Round(forecasted_usage[k], 1))
            /\ RLe(Round(forecasted_usage[k], 1), Rat(69, 10))

\* C9 amended: from the last 3 history points the forecast for days 6..10, one
\* call per day in ascending order, is 6.4, 6.3, 6.1, 5.8, 5.4: non-increasing,
\* between 5.4 and 6.4, each value >= 0.
C9_Forecast ==
    (pc = "done" /\ ForecastScenario) =>
        /\ forecasted_usage =
               <<Rat(64, 10), Rat(63, 10), Rat(61, 10), Rat(58, 10), Rat(54, 10)>>
        /\ NonIncreasing(forecasted_usage)
        /\ \A k \in 1..5 : RLe(Zero, forecasted_usage[k])

C9_Witness ==
    /\ pc = "done" /\ ForecastScenario
    /\ Len(forecasted_usage) = 5
    /\ RLt(forecasted_usage[5], forecasted_usage[1])

----------------------------------------------------------------------------
(* Properties of golden_section_search *)

\* C7: the value golden_section_search returns lies strictly inside the bounds
\* it was called with, a < result < b; so for reduction_to_life on [0, 0.5].
C7_ResultWithinBounds ==
    (pc = "done") =>
        /\ RLt(gs_bounds[1], optimal_reduction)
        /\ RLt(optimal_reduction, gs_bounds[2])

C7_Witness ==
    /\ pc = "done"
    /\ objective = reduction_to_life
    /\ gs_bounds = <<Zero, Rat(1, 2)>>
    /\ RLt(Rat(48, 100), optimal_reduction)
    /\ RLt(optimal_reduction, Rat(49, 100))

====
